---------------------------- MODULE Spec2Model ----------------------------
(***************************************************************************)
(* Model of the microphone front-end BSP:                                  *)
(*   - BSP/lpf/src/bsp_lpf.c : the single-pole low-pass filter (global     *)
(*     lowpass_filter, init_lowpass_filter, filter_sample, filter_block),  *)
(*     with its float32 arithmetic modelled bit-exactly;                   *)
(*   - BSP/dfsdm/src/bsp_dfsdm.c and the single-microphone variant : the   *)
(*     DFSDM half/full-complete callbacks that hand the capture buffer's   *)
(*     halves to HAL_UART_Transmit_DMA.                                    *)
(***************************************************************************)
EXTENDS Integers, Sequences, FiniteSets, TLC

VARIABLES
    lowpass_filter,  \* the global simple_lowpass_filter_t (bsp_lpf.c:3)
    fp_contract,     \* how the build evaluates a*x + b*y (fixed per build)
    start,           \* ghost: filter state where the recorded history starts
    ins,             \* ghost: inputs fed to the filter since start
    outs,            \* ghost: outputs the filter returned since start
    last,            \* ghost: the last filter operation and the state before it
    reinit_dirty,    \* ghost: the last init_lowpass_filter overwrote prev_output /= 0
    cb_log,          \* dual-mic build: callbacks invoked, in order
    tx_calls,        \* dual-mic build: HAL_UART_Transmit_DMA calls and their status
    s_cb_log,        \* single-mic build: callbacks invoked, in order
    s_tx_calls,      \* single-mic build: HAL_UART_Transmit_DMA calls and their status
    wr,              \* capture DMA: next sample index written in Buf_Mic1
    captured,        \* capture DMA: samples written so far
    Buf_Mic1,        \* the capture buffer: sample index -> capture sequence number
    huart1,          \* UART transmit DMA: gState, buffer, read pointer, bytes left
    sent             \* bytes the UART has sent: buffer, byte offset, sample read

lpf_vars == <<lowpass_filter, fp_contract, start, ins, outs, last, reinit_dirty>>
cb_vars == <<cb_log, tx_calls, s_cb_log, s_tx_calls>>
dma_vars == <<wr, captured, Buf_Mic1, huart1, sent>>
vars == <<lpf_vars, cb_vars, dma_vars>>

(***************************************************************************)
(* float32 arithmetic.  A non-negative magnitude is [i, f]: i + f/2^FracBits *)
(* with 0 <= f < 2^FracBits; a signed value adds neg.  A coefficient is     *)
(* [m, e]: m * 2^-e with m <= 2^MantBits and MantBits <= e <= FracBits.     *)
(* Every product of a coefficient and an int16 is exact in this format, and *)
(* Round24 is IEEE-754 round-to-nearest-even to a 24-bit significand.       *)
(***************************************************************************)
MantBits == 24
FracBits == MantBits + 4
Limb == 2^12

RECURSIVE BitLen(_)
BitLen(n) == IF n = 0 THEN 0 ELSE 1 + BitLen(n \div 2)

Abs(x) == IF x < 0 THEN -x ELSE x

\* n / 2^k rounded to the nearest integer, ties to even
RoundHalfEven(n, k) ==
    IF k <= 0 THEN n
    ELSE LET q == n \div (2^k)
             r == n % (2^k)
             h == 2^(k - 1)
         IN IF r > h \/ (r = h /\ q % 2 = 1) THEN q + 1 ELSE q

\* the magnitude [i, f] rounded to a 24-bit significand
Round24(mag) ==
    LET d == IF mag.i = 0 THEN BitLen(mag.f) - MantBits
             ELSE BitLen(mag.i) + (FracBits - MantBits)
        q == RoundHalfEven(mag.f, d) * (IF d <= 0 THEN 1 ELSE 2^d)
    IN IF q = 2^FracBits THEN [i |-> mag.i + 1, f |-> 0]
                         ELSE [i |-> mag.i, f |-> q]

\* the exact magnitude of coefficient c times |x|, |x| <= 2^15
ExactProd(c, x) ==
    LET a == Abs(x)
        A == (c.m \div Limb) * a
        B == (c.m % Limb) * a
        T == (A % Limb) * Limb + B
        Phi == (A \div Limb) + (T \div (2^MantBits))
        Plo == T % (2^MantBits)
        sh == c.e - MantBits
        R == (Phi % (2^sh)) * (2^MantBits) + Plo
    IN [i |-> Phi \div (2^sh), f |-> R * (2^(FracBits - c.e))]

Signed(neg, mag) == [neg |-> neg /\ (mag.i # 0 \/ mag.f # 0), i |-> mag.i, f |-> mag.f]

\* float product of a coefficient and (float32_t)x, rounded or not
FMul(c, x) == Signed(x < 0, Round24(ExactProd(c, x)))
FMulExact(c, x) == Signed(x < 0, ExactProd(c, x))

\* floor representation: value = I + F/2^FracBits, I any integer
ToFloor(v) ==
    IF ~v.neg THEN [I |-> v.i, F |-> v.f]
    ELSE IF v.f = 0 THEN [I |-> -v.i, F |-> 0]
    ELSE [I |-> -v.i - 1, F |-> 2^FracBits - v.f]

FromFloor(w) ==
    IF w.I >= 0 THEN [neg |-> FALSE, i |-> w.I, f |-> w.F]
    ELSE IF w.F = 0 THEN [neg |-> TRUE, i |-> -w.I, f |-> 0]
    ELSE [neg |-> TRUE, i |-> -w.I - 1, f |-> 2^FracBits - w.F]

\* float sum a + b, rounded once
FAdd(a, b) ==
    LET x == ToFloor(a)
        y == ToFloor(b)
        F == x.F + y.F
        s == FromFloor([I |-> x.I + y.I + (F \div (2^FracBits)), F |-> F % (2^FracBits)])
    IN Signed(s.neg, Round24([i |-> s.i, f |-> s.f]))

\* 1.0f - c, rounded
OneMinus(c) ==
    LET N == 2^c.e - c.m
        k == BitLen(N) - MantBits
    IN IF N <= 2^MantBits THEN [m |-> N, e |-> c.e]
       ELSE [m |-> RoundHalfEven(N, k), e |-> c.e - k]

FromInt(n) == [neg |-> n < 0, i |-> Abs(n), f |-> 0]
FGtInt(v, n) == LET w == ToFloor(v) IN w.I > n \/ (w.I = n /\ w.F > 0)
FLtInt(v, n) == ToFloor(v).I < n


(***************************************************************************)
(* The low-pass filter, bsp_lpf.c.                                         *)
(***************************************************************************)
\* ALPHA = 1.0f / (1.0f + 2.0f * PI * CUTOFF_FREQ / SAMPLE_RATE), folded in
\* float32 with PI = 3.14159265358979f: 0x3f1abacb = 10140363 * 2^-24
ALPHA == [m |-> 10140363, e |-> MantBits]

\* the build's evaluation of alpha*x + (1-alpha)*y: two rounded products, or
\* one product fused into the addition (VFMA, -ffp-contract)
FpModes == {"off", "fma_input", "fma_prev"}

\* static storage: the global before init_lowpass_filter runs
ZeroFilter ==
    [prev_output |-> 0, alpha |-> [m |-> 0, e |-> MantBits], min_val |-> 0, max_val |-> 0]

InitKeepsPrevOutput(f) ==
    [prev_output |-> f.prev_output, alpha |-> ALPHA, min_val |-> -32768, max_val |-> 32767]

InitSwapsBounds(f) ==
    [prev_output |-> 0, alpha |-> ALPHA, min_val |-> 32767, max_val |-> -32768]

\* init_lowpass_filter: the state it leaves, whatever f was
InitLowpassFilter(f) ==
    [prev_output |-> 0, alpha |-> ALPHA, min_val |-> -32768, max_val |-> 32767]

OutputFloatSwapped(f, input, mode) ==
    FAdd(FMul(OneMinus(f.alpha), input), FMul(f.alpha, f.prev_output))

\* output_float = alpha * input_float + (1.0f - alpha) * prev_output_float
OutputFloat(f, input, mode) ==
    LET a == f.alpha
        b == OneMinus(f.alpha)
    IN CASE mode = "off" -> FAdd(FMul(a, input), FMul(b, f.prev_output))
         [] mode = "fma_input" -> FAdd(FMulExact(a, input), FMul(b, f.prev_output))
         [] mode = "fma_prev" -> FAdd(FMul(a, input), FMulExact(b, f.prev_output))

\* if (o > max_val) o = max_val; if (o < min_val) o = min_val;
Clamp(f, v) ==
    LET v1 == IF FGtInt(v, f.max_val) THEN FromInt(f.max_val) ELSE v
    IN IF FLtInt(v1, f.min_val) THEN FromInt(f.min_val) ELSE v1

ToInt16Nearest(v) ==
    LET n == v.i + (IF 2 * v.f >= 2^FracBits THEN 1 ELSE 0) IN IF v.neg THEN -n ELSE n

\* (int16_t)output_float: truncation toward zero.  The operand has been
\* clamped to two int16 fields, so it is always in range.
ToInt16(v) == IF v.neg THEN -v.i ELSE v.i

FilterSampleRet(f, input, mode) == ToInt16(Clamp(f, OutputFloat(f, input, mode)))

FilterSampleNoStore(f, input, mode) ==
    [ret |-> FilterSampleRet(f, input, mode), f |-> f]

\* filter_sample: the value returned and the state left
FilterSample(f, input, mode) ==
    LET output == FilterSampleRet(f, input, mode)
    IN [ret |-> output, f |-> [f EXCEPT !.prev_output = output]]

RECURSIVE FilterBlockFrom(_, _, _, _, _, _)
FilterBlockFrom(f, input, output, i, size, mode) ==
    IF i < size
    THEN LET r == FilterSample(f, input[i + 1], mode)
         IN FilterBlockFrom(r.f, input, Append(output, r.ret), i + 1, size, mode)
    ELSE [output |-> output, f |-> f]

FilterBlockSkipsLast(f, input, size, mode) ==
    FilterBlockFrom(f, input, <<>>, 0, IF size > 0 THEN size - 1 ELSE 0, mode)

\* filter_block: for (i = 0; i < size; i++) output[i] = filter_sample(input[i])
FilterBlock(f, input, size, mode) == FilterBlockFrom(f, input, <<>>, 0, size, mode)


(***************************************************************************)
(* Bounds of the filter model.                                             *)
(***************************************************************************)
MaxHist == 3     \* filter inputs recorded between two init_lowpass_filter calls
MaxBlock == 2    \* largest size passed to filter_block

\* int16 inputs tried: both extremes, zero, small values of both signs
Samples == {-32768, -3, 0, 2, 32767}

\* alpha values tried when the filter is checked as a pure function:
\* the code's ALPHA, 0.5f and 0.1f
Alphas == {ALPHA, [m |-> 2^23, e |-> MantBits], [m |-> 13421773, e |-> MantBits + 3]}

(***************************************************************************)
(* The capture hand-off, bsp_dfsdm.c (dual-microphone build) and the       *)
(* single-microphone variant.                                              *)
(***************************************************************************)
SAMPLE_FREQUENCY == 8000
MICROPHEN_NUMBER == 1
FRAME_NUMBER == 1
BUF_LENGTH == (SAMPLE_FREQUENCY \div 1000) * MICROPHEN_NUMBER * FRAME_NUMBER
SizeofInt16 == 2
BufBytes == BUF_LENGTH * SizeofInt16

MaxCallbacks == 3   \* callbacks invoked when they are driven from outside
MaxCaptured == 12   \* samples the capture DMA writes

Handles == {"hdfsdm1_filter0", "hdfsdm1_filter1", "other"}

\* int16_t dfsdm_buf[BUF_LENGTH] = {0x12};
dfsdm_buf == [i \in 0..(BUF_LENGTH - 1) |-> IF i = 0 THEN 18 ELSE 0]

HalfCpltAnyHandle(h) == <<[buf |-> "Buf_Mic1", off |-> 0, size |-> BUF_LENGTH]>>

\* HAL_DFSDM_FilterRegConvHalfCpltCallback (dual-mic): the transmit requested
HalfCplt(h) ==
    IF h = "hdfsdm1_filter0" THEN <<>>
    ELSE IF h = "hdfsdm1_filter1"
         THEN <<[buf |-> "Buf_Mic1", off |-> 0, size |-> BUF_LENGTH]>>
         ELSE <<>>

CpltWholeBufferOffset(h) ==
    IF h = "hdfsdm1_filter0" THEN <<>>
    ELSE IF h = "hdfsdm1_filter1"
         THEN <<[buf |-> "Buf_Mic1", off |-> SizeofInt16 * BUF_LENGTH, size |-> BUF_LENGTH]>>
         ELSE <<>>

\* HAL_DFSDM_FilterRegConvCpltCallback (dual-mic): Buf_Mic1 + BUF_LENGTH / 2
\* is int16_t pointer arithmetic, the length is in bytes
Cplt(h) ==
    IF h = "hdfsdm1_filter0" THEN <<>>
    ELSE IF h = "hdfsdm1_filter1"
         THEN <<[buf |-> "Buf_Mic1", off |-> SizeofInt16 * (BUF_LENGTH \div 2),
                 size |-> BUF_LENGTH]>>
         ELSE <<>>

\* the single-microphone variant ignores the handle
SingleHalfCplt(h) == <<[buf |-> "dfsdm_buf", off |-> 0, size |-> BUF_LENGTH]>>
SingleCplt(h) ==
    <<[buf |-> "dfsdm_buf", off |-> SizeofInt16 * (BUF_LENGTH \div 2), size |-> BUF_LENGTH]>>

\* HAL_UART_Transmit_DMA: starts the transfer when the UART is ready, and
\* otherwise returns HAL_BUSY and starts nothing
HAL_UART_Transmit_DMA(u, req) ==
    IF u.gState = "READY"
    THEN [u |-> [gState |-> "BUSY_TX", buf |-> req.buf, ptr |-> req.off, cnt |-> req.size],
          ret |-> "HAL_OK"]
    ELSE [u |-> u, ret |-> "HAL_BUSY"]

UartIdle == [gState |-> "READY", buf |-> "Buf_Mic1", ptr |-> 0, cnt |-> 0]

DfsdmIdle ==
    /\ cb_log = <<>> /\ tx_calls = <<>> /\ s_cb_log = <<>> /\ s_tx_calls = <<>>
    /\ wr = 0 /\ captured = 0
    /\ Buf_Mic1 = [i \in 0..(BUF_LENGTH - 1) |-> 0]
    /\ huart1 = UartIdle
    /\ sent = <<>>

\* the program after load: lowpass_filter zero-initialised, nothing called yet
Init ==
    /\ lowpass_filter = ZeroFilter
    /\ fp_contract \in FpModes
    /\ start = ZeroFilter
    /\ ins = <<>> /\ outs = <<>>
    /\ last = [op |-> "none", n |-> 0]
    /\ reinit_dirty = FALSE
    /\ DfsdmIdle

\* the filter as a pure function: any int16 prev_output, any alpha tried
InitAlpha ==
    /\ lowpass_filter \in {[prev_output |-> p, alpha |-> a, min_val |-> -32768,
                            max_val |-> 32767] : p \in Samples, a \in Alphas}
    /\ fp_contract \in FpModes
    /\ start = lowpass_filter
    /\ ins = <<>> /\ outs = <<>>
    /\ last = [op |-> "none", n |-> 0]
    /\ reinit_dirty = FALSE
    /\ DfsdmIdle

init_lowpass_filter ==
    /\ lowpass_filter' = InitLowpassFilter(lowpass_filter)
    /\ start' = lowpass_filter'
    /\ ins' = <<>> /\ outs' = <<>>
    /\ last' = [op |-> "init", n |-> 0]
    /\ reinit_dirty' = (lowpass_filter.prev_output # 0)
    /\ UNCHANGED <<fp_contract, cb_vars, dma_vars>>

filter_sample ==
    /\ Len(ins) < MaxHist
    /\ \E input \in Samples :
          LET r == FilterSample(lowpass_filter, input, fp_contract)
          IN /\ lowpass_filter' = r.f
             /\ ins' = Append(ins, input)
             /\ outs' = Append(outs, r.ret)
    /\ last' = [op |-> "sample", n |-> 1]
    /\ UNCHANGED <<fp_contract, start, reinit_dirty, cb_vars, dma_vars>>

filter_block ==
    /\ \E size \in 0..MaxBlock :
          /\ Len(ins) + size <= MaxHist
          /\ \E input \in [1..size -> Samples] :
                LET r == FilterBlock(lowpass_filter, input, size, fp_contract)
                IN /\ lowpass_filter' = r.f
                   /\ ins' = ins \o input
                   /\ outs' = outs \o r.output
          /\ last' = [op |-> "block", n |-> size]
    /\ UNCHANGED <<fp_contract, start, reinit_dirty, cb_vars, dma_vars>>

Next == init_lowpass_filter \/ filter_sample \/ filter_block
Spec == Init /\ [][Next]_vars

NextAlpha == filter_sample \/ filter_block
SpecAlpha == InitAlpha /\ [][NextAlpha]_vars


(***************************************************************************)
(* Properties of the filter.                                               *)
(***************************************************************************)
Inited == lowpass_filter.alpha = ALPHA
Fresh == [prev_output |-> 0, alpha |-> ALPHA, min_val |-> -32768, max_val |-> 32767]
\* prev_output as it was before the k-th recorded call
PrevAt(k) == IF k = 1 THEN start.prev_output ELSE outs[k - 1]
Dist(a, b) == Abs(a - b)

\* C1: after init_lowpass_filter the clamp bounds are [-32768, 32767], and
\* every value filter_sample returned and the stored prev_output lie in
\* [min_val, max_val].
C1_OutputInRange ==
    Inited =>
        /\ lowpass_filter.min_val = -32768
        /\ lowpass_filter.max_val = 32767
        /\ lowpass_filter.prev_output \in lowpass_filter.min_val..lowpass_filter.max_val
        /\ \A k \in 1..Len(outs) :
              outs[k] \in lowpass_filter.min_val..lowpass_filter.max_val

\* after init, full-scale inputs of both signs have driven the output far
\* to both sides
C1_Witness ==
    /\ Inited
    /\ \E j \in 1..Len(outs), k \in 1..Len(outs) : outs[j] > 16384 /\ outs[k] < -16384

\* C5: from any starting state, filter_block over the n inputs fed so far
\* writes exactly n outputs, equal element by element to what the calls made
\* so far returned (single filter_sample calls and blocks, in any split), and
\* leaves the filter in the same state.
C5_BlockEqualsSamples ==
    /\ Len(outs) = Len(ins)
    /\ FilterBlock(start, ins, Len(ins), fp_contract) = [output |-> outs, f |-> lowpass_filter]

\* a full history built by single filter_sample calls, from a non-zero state
C5_Witness ==
    /\ Len(ins) = MaxHist
    /\ last.op = "sample"
    /\ start.prev_output # 0
    /\ \E k \in 1..Len(outs) : outs[k] # ins[k]

\* C6: init_lowpass_filter leaves prev_output = 0, alpha = ALPHA and the int16
\* clamp bounds whatever the state was, and the outputs returned since are
\* those of the fresh filter on the inputs fed since.
C6_ReinitResets ==
    /\ last.op = "init" => lowpass_filter = Fresh
    /\ Inited =>
          /\ start = Fresh
          /\ FilterBlock(Fresh, ins, Len(ins), fp_contract).output = outs

\* outputs produced after an init that overwrote a non-zero prev_output
C6_Witness == reinit_dirty /\ Len(outs) >= 2 /\ outs[1] # 0

\* C7 (as claimed): with alpha in (0,1) the distance to a constant input
\* never increases and reaches 0.  filter_sample is a function of the state
\* and the input, so an output that repeats under the same input stays
\* forever: reaching 0 needs every repeated output to equal the input.
C7_ConvergesToInput ==
    (start.alpha.m > 0 /\ start.alpha.m < 2^start.alpha.e) =>
        \A k \in 1..Len(outs) :
            /\ Dist(outs[k], ins[k]) <= Dist(PrevAt(k), ins[k])
            /\ outs[k] = PrevAt(k) => outs[k] = ins[k]

\* C7 (amended): with the alpha init_lowpass_filter sets, every call moves
\* the output strictly closer to its input unless the output repeats, and
\* a repeated output is within 1 of the input.
C7_SettlesWithinOne ==
    start.alpha = ALPHA =>
        \A k \in 1..Len(outs) :
            /\ Dist(outs[k], ins[k]) <= Dist(PrevAt(k), ins[k])
            /\ outs[k] # PrevAt(k) => Dist(outs[k], ins[k]) < Dist(PrevAt(k), ins[k])
            /\ outs[k] = PrevAt(k) => Dist(outs[k], ins[k]) <= 1

\* constant input 2 from 0: the output settles at 1
C7_Witness ==
    /\ start.alpha = ALPHA
    /\ ins = <<2, 2, 2>>
    /\ outs = <<1, 1, 1>>

ImpulseStart == [prev_output |-> 0, alpha |-> [m |-> 2^23, e |-> MantBits],
                 min_val |-> -32768, max_val |-> 32767]
IsImpulse ==
    /\ start = ImpulseStart
    /\ Len(ins) >= 1
    /\ ins[1] = 32767
    /\ \A k \in 2..Len(ins) : ins[k] = 0

C10_Frame ==
    [][/\ last'.op = "sample" =>
             /\ Len(outs') = Len(outs) + 1
             /\ lowpass_filter' =
                   [lowpass_filter EXCEPT !.prev_output = outs'[Len(outs')]]
       /\ last'.op = "block" =>
             /\ lowpass_filter'.alpha = lowpass_filter.alpha
             /\ lowpass_filter'.min_val = lowpass_filter.min_val
             /\ lowpass_filter'.max_val = lowpass_filter.max_val
             /\ (last'.n = 0 => lowpass_filter' = lowpass_filter /\ outs' = outs)
      ]_vars

\* after init, calls that changed prev_output followed by a filter_block
\* call of size 0
C10_Witness ==
    /\ Inited
    /\ last.op = "block" /\ last.n = 0
    /\ Len(outs) >= 2
    /\ outs[Len(outs)] # PrevAt(Len(outs))
    /\ lowpass_filter.prev_output = outs[Len(outs)]


(***************************************************************************)
(* Actions of the capture hand-off.                                        *)
(***************************************************************************)
\* the body of a callback: the requests it makes go to HAL_UART_Transmit_DMA
\* and the return value is ignored
Issue(cb, reqs, calls) ==
    IF reqs = <<>>
    THEN [u |-> huart1, calls |-> calls]
    ELSE LET r == HAL_UART_Transmit_DMA(huart1, reqs[1])
         IN [u |-> r.u,
             calls |-> Append(calls, [cb |-> cb, req |-> reqs[1], ret |-> r.ret])]

HAL_DFSDM_FilterRegConvHalfCpltCallback ==
    /\ s_cb_log = <<>>
    /\ Len(cb_log) < MaxCallbacks
    /\ \E h \in Handles :
          LET r == Issue("half", HalfCplt(h), tx_calls)
          IN /\ cb_log' = Append(cb_log, [cb |-> "half", h |-> h])
             /\ tx_calls' = r.calls
             /\ huart1' = r.u
    /\ UNCHANGED <<lpf_vars, s_cb_log, s_tx_calls, wr, captured, Buf_Mic1, sent>>

HAL_DFSDM_FilterRegConvCpltCallback ==
    /\ s_cb_log = <<>>
    /\ Len(cb_log) < MaxCallbacks
    /\ \E h \in Handles :
          LET r == Issue("full", Cplt(h), tx_calls)
          IN /\ cb_log' = Append(cb_log, [cb |-> "full", h |-> h])
             /\ tx_calls' = r.calls
             /\ huart1' = r.u
    /\ UNCHANGED <<lpf_vars, s_cb_log, s_tx_calls, wr, captured, Buf_Mic1, sent>>

Single_FilterRegConvHalfCpltCallback ==
    /\ cb_log = <<>>
    /\ Len(s_cb_log) < MaxCallbacks
    /\ \E h \in Handles :
          LET r == Issue("half", SingleHalfCplt(h), s_tx_calls)
          IN /\ s_cb_log' = Append(s_cb_log, [cb |-> "half", h |-> h])
             /\ s_tx_calls' = r.calls
             /\ huart1' = r.u
    /\ UNCHANGED <<lpf_vars, cb_log, tx_calls, wr, captured, Buf_Mic1, sent>>

Single_FilterRegConvCpltCallback ==
    /\ cb_log = <<>>
    /\ Len(s_cb_log) < MaxCallbacks
    /\ \E h \in Handles :
          LET r == Issue("full", SingleCplt(h), s_tx_calls)
          IN /\ s_cb_log' = Append(s_cb_log, [cb |-> "full", h |-> h])
             /\ s_tx_calls' = r.calls
             /\ huart1' = r.u
    /\ UNCHANGED <<lpf_vars, cb_log, tx_calls, wr, captured, Buf_Mic1, sent>>

\* the UART's DMA reads the next byte of the transfer and sends it; after
\* the last byte the UART is ready again
UartDmaByte ==
    /\ huart1.gState = "BUSY_TX"
    /\ LET idx == huart1.ptr \div SizeofInt16
           mem == IF huart1.buf = "Buf_Mic1" THEN Buf_Mic1 ELSE dfsdm_buf
       IN sent' = Append(sent, [buf |-> huart1.buf, off |-> huart1.ptr, val |-> mem[idx]])
    /\ huart1' = [huart1 EXCEPT !.ptr = @ + 1,
                                !.cnt = @ - 1,
                                !.gState = IF huart1.cnt = 1 THEN "READY" ELSE @]
    /\ UNCHANGED <<lpf_vars, cb_vars, wr, captured, Buf_Mic1>>

\* the capture DMA (circular) writes the next sample of channel 1; filling
\* a half raises the half- or full-complete interrupt, whose callback runs
DmaCaptureSample ==
    /\ captured < MaxCaptured
    /\ captured' = captured + 1
    /\ Buf_Mic1' = [Buf_Mic1 EXCEPT ![wr] = captured + 1]
    /\ wr' = (wr + 1) % BUF_LENGTH
    /\ LET reqs == IF wr + 1 = BUF_LENGTH \div 2 THEN HalfCplt("hdfsdm1_filter1")
                   ELSE IF wr + 1 = BUF_LENGTH THEN Cplt("hdfsdm1_filter1")
                   ELSE <<>>
           r == Issue(IF wr + 1 = BUF_LENGTH THEN "full" ELSE "half", reqs, tx_calls)
       IN /\ tx_calls' = r.calls
          /\ huart1' = r.u
          /\ cb_log' = IF wr + 1 = BUF_LENGTH \div 2
                       THEN Append(cb_log, [cb |-> "half", h |-> "hdfsdm1_filter1"])
                       ELSE IF wr + 1 = BUF_LENGTH
                       THEN Append(cb_log, [cb |-> "full", h |-> "hdfsdm1_filter1"])
                       ELSE cb_log
    /\ UNCHANGED <<lpf_vars, s_cb_log, s_tx_calls, sent>>

\* callbacks driven in any order with any handle, one build or the other
NextCb ==
    \/ HAL_DFSDM_FilterRegConvHalfCpltCallback
    \/ HAL_DFSDM_FilterRegConvCpltCallback
    \/ Single_FilterRegConvHalfCpltCallback
    \/ Single_FilterRegConvCpltCallback
    \/ UartDmaByte
SpecCb == Init /\ [][NextCb]_vars

\* the capture DMA and the UART DMA running in parallel, at any relative speed
NextDfsdm == DmaCaptureSample \/ UartDmaByte
SpecDfsdm == Init /\ [][NextDfsdm]_vars


(***************************************************************************)
(* Properties of the capture hand-off.                                     *)
(***************************************************************************)
IsMapped(e) == e.h = "hdfsdm1_filter1"
HalfOffset(cb) == IF cb = "half" THEN 0 ELSE SizeofInt16 * (BUF_LENGTH \div 2)
\* the calls are, in order, one per callback of cbs, each at its half of buf
CallsMatch(calls, cbs, buf) ==
    /\ Len(calls) = Len(cbs)
    /\ \A k \in 1..Len(calls) :
          /\ calls[k].cb = cbs[k].cb
          /\ calls[k].req.buf = buf
          /\ calls[k].req.off = HalfOffset(cbs[k].cb)

\* C2 (as claimed): in either build the calls to HAL_UART_Transmit_DMA are
\* exactly one per callback for hdfsdm1_filter1, the half-complete ones at
\* offset 0 and the full-complete ones at BUF_LENGTH/2 samples, and callbacks
\* for any other handle cause none.
C2_OnlyMappedTransmits ==
    /\ CallsMatch(tx_calls, SelectSeq(cb_log, IsMapped), "Buf_Mic1")
    /\ CallsMatch(s_tx_calls, SelectSeq(s_cb_log, IsMapped), "dfsdm_buf")

\* C2 (amended): that holds of the dual-microphone build; the
\* single-microphone variant does not look at the handle, and every callback
\* causes one call at its half of dfsdm_buf.
C2_TransmitPerCallback ==
    /\ CallsMatch(tx_calls, SelectSeq(cb_log, IsMapped), "Buf_Mic1")
    /\ CallsMatch(s_tx_calls, s_cb_log, "dfsdm_buf")

\* dual-mic build: a half and a full callback for the mapped channel and one
\* for another handle
C2_Witness ==
    /\ Len(cb_log) = MaxCallbacks
    /\ Len(tx_calls) = 2
    /\ tx_calls[1].cb # tx_calls[2].cb
    /\ \E k \in 1..Len(cb_log) : cb_log[k].h = "hdfsdm1_filter0"

\* C3: every HAL_UART_Transmit_DMA call made for a completed half is
\* accepted, and the bytes sent are the captured samples in capture order,
\* none missing.
C3_NoSampleDropped ==
    /\ \A k \in 1..Len(tx_calls) : tx_calls[k].ret = "HAL_OK"
    /\ \A k \in 1..Len(sent) :
          /\ sent[k].val = ((k - 1) \div SizeofInt16) + 1
          /\ sent[k].off = (k - 1) % BufBytes

\* C4: while the UART's DMA reads a half of Buf_Mic1, the capture DMA is
\* writing the other half.
C4_HalvesExclusive ==
    huart1.gState = "BUSY_TX" =>
        huart1.ptr \div (BufBytes \div 2) # wr \div (BUF_LENGTH \div 2)

Range(req) == req.off..(req.off + req.size - 1)
RangesPartition(calls) ==
    /\ \A k \in 1..Len(calls) : Range(calls[k].req) \subseteq 0..(BufBytes - 1)
    /\ \A j \in 1..Len(calls), k \in 1..Len(calls) :
          (calls[j].cb = "half" /\ calls[k].cb = "full") =>
              /\ Range(calls[j].req) \cap Range(calls[k].req) = {}
              /\ Range(calls[j].req) \cup Range(calls[k].req) = 0..(BufBytes - 1)

\* C9: the byte range a half-complete callback hands to the UART and the one
\* a full-complete callback hands over lie inside the buffer, are disjoint
\* and together are the whole buffer, in both builds.
C9_HalvesPartitionBuffer == RangesPartition(tx_calls) /\ RangesPartition(s_tx_calls)

\* both halves of Buf_Mic1 have been handed over
C9_Witness ==
    \E j \in 1..Len(tx_calls), k \in 1..Len(tx_calls) :
        tx_calls[j].cb = "half" /\ tx_calls[k].cb = "full"

=============================================================================
